---- MODULE Spec2Model ----
(***************************************************************************)
(* Model of mainframe.py: the ImageCaptionEditor session (image_files,     *)
(* current_index, folder_path), the sidecar caption files it reads and     *)
(* writes, and the handlers the interface binds to its buttons.            *)
(*                                                                         *)
(* Strings are sequences of one-character strings, so that str.replace,    *)
(* str.strip, sorted() and the text-mode newline translation are computed  *)
(* character by character as Python computes them.                         *)
(***************************************************************************)
EXTENDS Integers, Sequences, FiniteSets, TLC

VARIABLES image_files, current_index, folder_path, files, disk, system,
          result, last, saved

vars == <<image_files, current_index, folder_path, files, disk, system,
          result, last, saved>>

(* ---------------------------------------------------------------------- *)
(* Bounds                                                                  *)
(* ---------------------------------------------------------------------- *)
\* jump numbers are drawn from -1 .. MaxJump
MaxJump == 4

(* ---------------------------------------------------------------------- *)
(* Values                                                                  *)
(* ---------------------------------------------------------------------- *)
\* Python's None, kept distinct from every string (no string holds this token)
None == <<"<None>">>

\* states of a caption path that are not readable text
Missing == <<"<missing>">>
BadBytes == <<"<not utf-8>">>
IsDir == <<"<directory>">>

PNG == <<".", "p", "n", "g">>
TXT == <<".", "t", "x", "t">>

\* code points of the characters that occur in paths, for sorted()
Ord == [c \in {".", "/", "a", "d", "e", "g", "j", "n", "p", "t", "x"} |->
          CASE c = "." -> 46 [] c = "/" -> 47 [] c = "a" -> 97
            [] c = "d" -> 100 [] c = "e" -> 101 [] c = "g" -> 103
            [] c = "j" -> 106 [] c = "n" -> 110 [] c = "p" -> 112
            [] c = "t" -> 116 [] c = "x" -> 120]

\* str < str : lexicographic by code point, a proper prefix is smaller
RECURSIVE StrLess(_, _)
StrLess(s, t) ==
  IF t = <<>> THEN FALSE
  ELSE IF s = <<>> THEN TRUE
  ELSE IF Head(s) = Head(t) THEN StrLess(Tail(s), Tail(t))
  ELSE Ord[Head(s)] < Ord[Head(t)]

\* sorted(set of strings)
RECURSIVE sorted(_)
sorted(S) ==
  IF S = {} THEN <<>>
  ELSE LET m == CHOOSE x \in S : \A y \in S \ {x} : StrLess(x, y)
       IN <<m>> \o sorted(S \ {m})

\* str.replace(old, new): every non-overlapping occurrence, left to right
RECURSIVE replace(_, _, _)
replace(s, old, new) ==
  IF Len(s) < Len(old) THEN s
  ELSE IF SubSeq(s, 1, Len(old)) = old
       THEN new \o replace(SubSeq(s, Len(old) + 1, Len(s)), old, new)
       ELSE <<Head(s)>> \o replace(Tail(s), old, new)

\* image_path.replace('.png', '.txt')
CaptionPath(image_path) == replace(image_path, PNG, TXT)

Whitespace == {" ", "\n", "\r", "\t"}

RECURSIVE lstrip(_)
lstrip(s) ==
  IF s # <<>> /\ Head(s) \in Whitespace THEN lstrip(Tail(s)) ELSE s

RECURSIVE rstrip(_)
rstrip(s) ==
  IF s # <<>> /\ s[Len(s)] \in Whitespace
  THEN rstrip(SubSeq(s, 1, Len(s) - 1)) ELSE s

\* str.strip()
strip(s) == rstrip(lstrip(s))

\* text-mode read (newline=None): "\r\n" and a lone "\r" both become "\n"
RECURSIVE ReadNewlines(_)
ReadNewlines(s) ==
  IF s = <<>> THEN <<>>
  ELSE IF Head(s) = "\r"
       THEN IF Len(s) >= 2 /\ s[2] = "\n"
            THEN <<"\n">> \o ReadNewlines(SubSeq(s, 3, Len(s)))
            ELSE <<"\n">> \o ReadNewlines(Tail(s))
       ELSE <<Head(s)>> \o ReadNewlines(Tail(s))

\* text-mode write (newline=None): "\n" becomes os.linesep
WriteNewlines(s, sys) ==
  IF sys = "windows" THEN replace(s, <<"\n">>, <<"\r", "\n">>) ELSE s

\* os.path.join(folder, name) for a folder without a trailing separator
JoinPath(folder, name) == folder \o <<"/">> \o name

\* fnmatch of "*.png" as glob applies it: the name ends in ".png" and is not
\* a hidden name (a leading "." is matched only by a pattern that has one)
MatchesPng(name) ==
  /\ Len(name) >= Len(PNG)
  /\ SubSeq(name, Len(name) - Len(PNG) + 1, Len(name)) = PNG
  /\ Head(name) # "."

(* ---------------------------------------------------------------------- *)
(* The filesystem the session runs against                                 *)
(* ---------------------------------------------------------------------- *)
Folders == {<<"d">>, <<"e">>}

\* image names a folder may hold
PngNames == {<<"a">> \o PNG, <<"a">> \o PNG \o PNG, <<"a">> \o TXT \o PNG}

\* names every folder holds and that the scan must not return
OtherNames == {<<"n", ".", "j", "p", "g">>, <<".", "a">> \o PNG}

\* names of the caption files of PngNames
TxtNames == {<<"a">> \o TXT, <<"a">> \o TXT \o TXT}

TxtPaths == {JoinPath(f, n) : f \in Folders, n \in TxtNames}

\* text already in a caption file before the session starts
OldText == <<" ", "a", "\n">>

\* caption texts the caption field supplies
CaptionTexts == {<<>>, <<" ", "a", " ">>, <<"a", "\r", "a">>,
                 <<"a", "\n", "a">>}

\* platform.system().lower() of the hosts the session is run on here; only
\* the line separator of text-mode writes depends on it
Systems == {"linux", "windows"}

\* directory listing of a folder: its own files and the caption files
\* present; a path that is no directory lists nothing
Listing(folder, fs, dsk) ==
  IF folder \in DOMAIN dsk
  THEN dsk[folder] \cup {n \in TxtNames : fs[JoinPath(folder, n)] # Missing}
  ELSE {}

\* glob.glob(os.path.join(folder_path, "*.png"))
glob(folder, fs, dsk) ==
  {JoinPath(folder, n) : n \in {m \in Listing(folder, fs, dsk) : MatchesPng(m)}}

(* ---------------------------------------------------------------------- *)
(* Results                                                                 *)
(* ---------------------------------------------------------------------- *)
Status(msg, i, n) == [msg |-> msg, i |-> i, n |-> n]

Ret(image, caption, status) ==
  [kind |-> "ret", out |-> <<image, caption, status>>]

Raise(exc) == [kind |-> "raise", out |-> <<exc>>]

NoResult == [kind |-> "none", out |-> <<>>]

\* the session object
Self == [image_files |-> image_files, current_index |-> current_index,
         folder_path |-> folder_path]

(* ---------------------------------------------------------------------- *)
(* ImageCaptionEditor                                                      *)
(* ---------------------------------------------------------------------- *)
\* a slip of the read: no handler for the missing caption file
ReadCaptionNoHandler(txt_path, fs) ==
  LET content == fs[txt_path]
  IN IF content = Missing THEN Raise("FileNotFoundError")
     ELSE IF content = IsDir THEN Raise("IsADirectoryError")
     ELSE IF content = BadBytes THEN Raise("UnicodeDecodeError")
     ELSE [kind |-> "ret", out |-> strip(ReadNewlines(content))]

\* open(txt_path, 'r', encoding='utf-8'); f.read().strip(), with the
\* FileNotFoundError handler
ReadCaption(txt_path, fs) ==
  LET content == fs[txt_path]
  IN IF content = Missing THEN [kind |-> "ret", out |-> <<>>]
     ELSE IF content = IsDir THEN Raise("IsADirectoryError")
     ELSE IF content = BadBytes THEN Raise("UnicodeDecodeError")
     ELSE [kind |-> "ret", out |-> strip(ReadNewlines(content))]

get_current_pair(self, fs) ==
  IF self.image_files = <<>>
  THEN Ret(None, <<>>, Status("No images loaded", 0, 0))
  ELSE IF self.current_index >= Len(self.image_files)
  THEN Raise("IndexError")
  ELSE LET image_path == self.image_files[self.current_index + 1]
           txt_path == CaptionPath(image_path)
           rd == ReadCaption(txt_path, fs)
       IN IF rd.kind = "raise" THEN rd
          ELSE Ret(image_path, rd.out,
                   Status("Showing image", self.current_index + 1,
                          Len(self.image_files)))

\* a slip of "if not folder_path": only None is rejected, "" is scanned
FalsyNoneOnly(folder) == folder = None

\* "if not folder_path"
Falsy(folder) == folder = None \/ folder = <<>>

\* a slip of the scan: the list is replaced only when the scan found images
ScannedKeepsOldList(self, folder, found) ==
  IF found = <<>> THEN [self EXCEPT !.folder_path = folder]
  ELSE [self EXCEPT !.folder_path = folder, !.image_files = found]

\* a slip of the scan: the folder path is not recorded
ScannedKeepsOldFolder(self, folder, found) ==
  [self EXCEPT !.image_files = found]

\* self.folder_path = folder_path; self.image_files = sorted(glob.glob(...))
Scanned(self, folder, found) ==
  [self EXCEPT !.folder_path = folder, !.image_files = found]

load_folder(self, folder, fs, dsk) ==
  IF Falsy(folder)
  THEN [self |-> self,
        ret |-> Ret(None, <<>>, Status("No folder selected", 0, 0))]
  ELSE LET found == sorted(glob(folder, fs, dsk))
           scanned == Scanned(self, folder, found)
       IN IF found = <<>>
          THEN [self |-> scanned,
                ret |-> Ret(None, <<>>,
                   Status("No PNG files found in the selected folder", 0, 0))]
          ELSE LET first == [scanned EXCEPT !.current_index = 0]
               IN [self |-> first, ret |-> get_current_pair(first, fs)]


\* a slip of next_pair: the guard compares with len, not len - 1
NextIndexOffByOne(idx, n) == IF idx < n THEN idx + 1 ELSE idx

\* self.current_index after the guarded increment of next_pair
NextIndex(idx, n) == IF idx < n - 1 THEN idx + 1 ELSE idx

\* the second parameter is the text of the caption field, which the handler
\* ignores ("def next_pair(self, _)")
next_pair(self, typed, fs) ==
  LET moved == [self EXCEPT !.current_index =
                   NextIndex(self.current_index, Len(self.image_files))]
  IN [self |-> moved, ret |-> get_current_pair(moved, fs)]

\* self.current_index after the guarded decrement of previous_pair
PreviousIndex(idx) == IF idx > 0 THEN idx - 1 ELSE idx

\* the second parameter is the text of the caption field, which the handler
\* ignores ("def previous_pair(self, _)")
previous_pair(self, typed, fs) ==
  LET moved == [self EXCEPT !.current_index = PreviousIndex(self.current_index)]
  IN [self |-> moved, ret |-> get_current_pair(moved, fs)]

\* outcomes of open(txt_path, 'w') and f.write(caption) that the file does
\* not itself decide: success, open() raising, write() raising after open()
\* has truncated the file
WriteOutcomes == {"ok", "open_error", "write_error"}

\* a slip of the except branch: the image view is blanked on a failed save
SaveErrorBlanksImage(current_image, caption) ==
  Ret(None, caption, Status("Error saving caption: ", 0, 0))

\* the tuple returned by "except Exception as e"; str(e) is left open
SaveError(current_image, caption) ==
  Ret(current_image, caption, Status("Error saving caption: ", 0, 0))

save_caption(self, caption, fs, outcome, sys) ==
  IF self.image_files = <<>>
  THEN [self |-> self, fs |-> fs,
        ret |-> Ret(None, caption, Status("No images loaded", 0, 0))]
  ELSE IF self.current_index >= Len(self.image_files)
  THEN [self |-> self, fs |-> fs, ret |-> Raise("IndexError")]
  ELSE LET current_image == self.image_files[self.current_index + 1]
           txt_path == CaptionPath(current_image)
       IN IF fs[txt_path] = IsDir \/ outcome = "open_error"
          THEN [self |-> self, fs |-> fs,
                ret |-> SaveError(current_image, caption)]
          ELSE IF outcome = "write_error"
          THEN [self |-> self, fs |-> [fs EXCEPT ![txt_path] = <<>>],
                ret |-> SaveError(current_image, caption)]
          ELSE [self |-> self,
                fs |-> [fs EXCEPT ![txt_path] = WriteNewlines(caption, sys)],
                ret |-> Ret(current_image, caption,
                            Status("Caption saved for image",
                                   self.current_index + 1, 0))]

\* a slip of clear_all: the folder path survives the reset
ClearAllKeepsFolder(self) ==
  [self |-> [image_files |-> <<>>, current_index |-> 0,
             folder_path |-> self.folder_path],
   ret |-> [kind |-> "ret",
            out |-> <<None, <<>>, Status("All fields cleared", 0, 0), <<>>, 1>>]]

clear_all(self) ==
  [self |-> [image_files |-> <<>>, current_index |-> 0, folder_path |-> None],
   ret |-> [kind |-> "ret",
            out |-> <<None, <<>>, Status("All fields cleared", 0, 0), <<>>, 1>>]]

\* values the jump field and a caller can pass to jump_to_pair
IntInput(k) == [t |-> "int", n |-> k, s |-> <<>>]
\* a float, held as a count of halves: FloatInput(5) is 2.5
FloatInput(h) == [t |-> "float", n |-> h, s |-> <<>>]
StrInput(s) == [t |-> "str", n |-> 0, s |-> s]
NoneInput == [t |-> "none", n |-> 0, s |-> <<>>]

Digits == {"0", "1", "2", "3", "4", "5", "6", "7", "8", "9"}

DigitVal(c) ==
  CASE c = "0" -> 0 [] c = "1" -> 1 [] c = "2" -> 2 [] c = "3" -> 3
    [] c = "4" -> 4 [] c = "5" -> 5 [] c = "6" -> 6 [] c = "7" -> 7
    [] c = "8" -> 8 [] c = "9" -> 9

RECURSIVE DecimalVal(_)
DecimalVal(s) ==
  IF s = <<>> THEN 0
  ELSE 10 * DecimalVal(SubSeq(s, 1, Len(s) - 1)) + DigitVal(s[Len(s)])

\* int(index): the value, or the exception int() raises
IntOf(index) ==
  CASE index.t = "int" -> [exc |-> "", val |-> index.n]
    [] index.t = "float" ->
         [exc |-> "",
          val |-> IF index.n >= 0 THEN index.n \div 2
                  ELSE 0 - ((0 - index.n) \div 2)]
    [] index.t = "none" -> [exc |-> "TypeError", val |-> 0]
    [] index.t = "str" ->
         LET body == strip(index.s)
         IN IF body # <<>> /\ \A i \in 1..Len(body) : body[i] \in Digits
            THEN [exc |-> "", val |-> DecimalVal(body)]
            ELSE [exc |-> "ValueError", val |-> 0]

\* exceptions that "except ValueError" catches
IsValueError(exc) == exc \in {"ValueError", "UnicodeDecodeError"}

\* the "except ValueError" branch of jump_to_pair
JumpValueErrorBranch(self, fs) ==
  LET g == get_current_pair(self, fs)
  IN IF g.kind = "raise" THEN g
     ELSE Ret(g.out[1], g.out[2], Status("Please enter a valid number", 0, 0))

\* "0 <= index < len(self.image_files)"
JumpInRange(index, n) == 0 <= index /\ index < n

jump_to_pair(self, index, fs) ==
  LET conv == IntOf(index)
  IN IF conv.exc = "ValueError"
     THEN [self |-> self, ret |-> JumpValueErrorBranch(self, fs)]
     ELSE IF conv.exc # ""
     THEN [self |-> self, ret |-> Raise(conv.exc)]
     ELSE LET idx == conv.val - 1
              target == IF JumpInRange(idx, Len(self.image_files))
                        THEN [self EXCEPT !.current_index = idx]
                        ELSE self
              g == get_current_pair(target, fs)
          IN IF g.kind = "raise"
             THEN [self |-> target,
                   ret |-> IF IsValueError(g.out[1])
                           THEN JumpValueErrorBranch(target, fs)
                           ELSE g]
             ELSE IF JumpInRange(idx, Len(self.image_files))
             THEN [self |-> target, ret |-> g]
             ELSE [self |-> target,
                   ret |-> Ret(g.out[1], g.out[2],
                               Status("Invalid image number", 0, 0))]

(* ---------------------------------------------------------------------- *)
(* Inputs of the handlers                                                  *)
(* ---------------------------------------------------------------------- *)
LoadInputs == {None, <<>>} \cup Folders

JumpInputs ==
  {IntInput(k) : k \in (0 - 1)..MaxJump}
    \cup {FloatInput(5), NoneInput, StrInput(<<"a", "b", "c">>),
          StrInput(<<" ", "2">>)}

\* no successful save has happened since the last save call
NoSave == [image |-> None, text |-> <<>>]

Call(op, arg) == [op |-> op, arg |-> arg]

(* ---------------------------------------------------------------------- *)
(* State machine                                                           *)
(* ---------------------------------------------------------------------- *)
\* what the caption paths hold before the session starts: the caption of
\* a.png is missing, text, or bytes that are not UTF-8; a.txt.txt is missing
\* or a directory
InitFiles ==
  {f \in [TxtPaths -> {Missing, OldText, BadBytes, IsDir}] :
     /\ \A n \in TxtNames : f[JoinPath(<<"e">>, n)] = Missing
     /\ f[JoinPath(<<"d">>, <<"a">> \o TXT)] \in {Missing, OldText, BadBytes}
     /\ f[JoinPath(<<"d">>, <<"a">> \o TXT \o TXT)] \in {Missing, IsDir}}

Init ==
  /\ image_files = <<>>
  /\ current_index = 0
  /\ folder_path = None
  /\ files \in InitFiles
  /\ \E S \in SUBSET PngNames :
       disk = [f \in Folders |->
                 IF f = <<"d">> THEN S \cup OtherNames ELSE OtherNames]
  /\ system \in Systems
  /\ result = NoResult
  /\ last = Call("init", None)
  /\ saved = NoSave

SetSelf(self) ==
  /\ image_files' = self.image_files
  /\ current_index' = self.current_index
  /\ folder_path' = self.folder_path

LoadFolder ==
  \E p \in LoadInputs :
    LET r == load_folder(Self, p, files, disk)
    IN /\ SetSelf(r.self)
       /\ result' = r.ret
       /\ last' = Call("load_folder", p)
       /\ UNCHANGED <<files, disk, system, saved>>

CurrentPair ==
  /\ result' = get_current_pair(Self, files)
  /\ last' = Call("get_current_pair", None)
  /\ UNCHANGED <<image_files, current_index, folder_path, files, disk,
                 system, saved>>

NextPair ==
  \E typed \in CaptionTexts :
    LET r == next_pair(Self, typed, files)
    IN /\ SetSelf(r.self)
       /\ result' = r.ret
       /\ last' = Call("next_pair", None)
       /\ UNCHANGED <<files, disk, system, saved>>

PreviousPair ==
  \E typed \in CaptionTexts :
    LET r == previous_pair(Self, typed, files)
    IN /\ SetSelf(r.self)
       /\ result' = r.ret
       /\ last' = Call("previous_pair", None)
       /\ UNCHANGED <<files, disk, system, saved>>

SaveCaption ==
  \E c \in CaptionTexts, o \in WriteOutcomes :
    LET r == save_caption(Self, c, files, o, system)
    IN /\ SetSelf(r.self)
       /\ files' = r.fs
       /\ result' = r.ret
       /\ last' = Call("save_caption", c)
       /\ saved' = IF r.ret.kind = "ret"
                      /\ r.ret.out[3].msg = "Caption saved for image"
                   THEN [image |-> r.ret.out[1], text |-> c]
                   ELSE NoSave
       /\ UNCHANGED <<disk, system>>

ClearAll ==
  LET r == clear_all(Self)
  IN /\ SetSelf(r.self)
     /\ result' = r.ret
     /\ last' = Call("clear_all", None)
     /\ UNCHANGED <<files, disk, system, saved>>

JumpToPair ==
  \E v \in JumpInputs :
    LET r == jump_to_pair(Self, v, files)
    IN /\ SetSelf(r.self)
       /\ result' = r.ret
       /\ last' = Call("jump_to_pair", v)
       /\ UNCHANGED <<files, disk, system, saved>>

Next ==
  \/ LoadFolder
  \/ CurrentPair
  \/ NextPair
  \/ PreviousPair
  \/ SaveCaption
  \/ ClearAll
  \/ JumpToPair

Spec == Init /\ [][Next]_vars


(* ---------------------------------------------------------------------- *)
(* The folder picker and the interface that calls it                       *)
(* ---------------------------------------------------------------------- *)
\* platform.system().lower(): the three supported hosts and another one
PickerSystems == {"darwin", "windows", "linux", "freebsd"}

\* what a dialog utility prints: nothing on cancel, else the chosen folder
DialogOutputs == {<<>>, <<"d", "\n">>, <<"e", "\n">>}

\* outcome of one subprocess.run: the exception it raises, or its stdout
Ran(exc, stdout) == [exc |-> exc, stdout |-> stdout]

RunOutcomes ==
  {Ran("FileNotFoundError", <<>>), Ran("OSError", <<>>)}
    \cup {Ran("", o) : o \in DialogOutputs}

\* outcomes of the utilities select_folder may run on a host: main is
\* osascript, powershell or zenity; kdialog is run on Linux only
PickerEnvs(sys) ==
  IF sys = "linux"
  THEN [main : RunOutcomes, kdialog : RunOutcomes]
  ELSE [main : RunOutcomes, kdialog : {Ran("FileNotFoundError", <<>>)}]

\* a slip of the last line of select_folder: the stripped output is returned
\* as it is, empty or not
PathAsIs(chosen) == chosen

\* "return folder_path if folder_path else None"
PathOrNone(chosen) == IF chosen # <<>> THEN chosen ELSE None

\* result.stdout.strip() of a run, then the last line of select_folder; an
\* exception other than the handled one reaches "except Exception"
Picked(run) ==
  IF run.exc # "" THEN None ELSE PathOrNone(strip(run.stdout))

\* select_folder: the value returned and the utilities run, in order
select_folder(sys, env) ==
  IF sys = "darwin"
  THEN [value |-> Picked(env.main), ran |-> <<"osascript">>]
  ELSE IF sys = "windows"
  THEN [value |-> Picked(env.main), ran |-> <<"powershell">>]
  ELSE IF sys = "linux"
  THEN IF env.main.exc = "FileNotFoundError"
       THEN [value |-> IF env.kdialog.exc = "FileNotFoundError" THEN None
                       ELSE Picked(env.kdialog),
             ran |-> <<"zenity", "kdialog">>]
       ELSE [value |-> Picked(env.main), ran |-> <<"zenity">>]
  ELSE [value |-> None, ran |-> <<>>]

\* the list update_folder_and_load returns when no folder was chosen
NoFolderSelected ==
  [kind |-> "ret",
   out |-> <<None, None, <<>>, Status("No folder selected", 0, 0)>>]

update_folder_and_load(self, folder, fs, dsk) ==
  IF Falsy(folder)
  THEN [self |-> self, ret |-> NoFolderSelected]
  ELSE LET r == load_folder(self, folder, fs, dsk)
       IN [self |-> r.self,
           ret |-> IF r.ret.kind = "raise" THEN r.ret
                   ELSE [kind |-> "ret", out |-> <<folder>> \o r.ret.out]]

\* select_btn.click(select_folder).success(update_folder_and_load)
Browse ==
  \E env \in PickerEnvs(system) :
    LET p == select_folder(system, env)
        r == update_folder_and_load(Self, p.value, files, disk)
    IN /\ SetSelf(r.self)
       /\ result' = r.ret
       /\ last' = Call("browse", [env |-> env, picked |-> p.value,
                                  ran |-> p.ran])
       /\ UNCHANGED <<files, disk, system, saved>>

\* a session on any host, started in front of a folder with two images, the
\* caption of the first one missing, text, or bytes that are not UTF-8
InitUI ==
  /\ image_files = <<>>
  /\ current_index = 0
  /\ folder_path = None
  /\ files \in {f \in InitFiles :
                  f[JoinPath(<<"d">>, <<"a">> \o TXT \o TXT)] = Missing}
  /\ disk = [f \in Folders |->
               IF f = <<"d">>
               THEN {<<"a">> \o PNG, <<"a">> \o PNG \o PNG} \cup OtherNames
               ELSE OtherNames]
  /\ system \in PickerSystems
  /\ result = NoResult
  /\ last = Call("init", None)
  /\ saved = NoSave

\* the handlers the interface binds to its buttons
NextUI ==
  \/ Browse
  \/ NextPair
  \/ PreviousPair
  \/ SaveCaption
  \/ ClearAll
  \/ JumpToPair

SpecUI == InitUI /\ [][NextUI]_vars

(* ---------------------------------------------------------------------- *)
(* Properties                                                              *)
(* ---------------------------------------------------------------------- *)
\* the handlers that return the pair at the current position
ShowingOps == {"load_folder", "get_current_pair", "next_pair",
               "previous_pair", "jump_to_pair"}

NoImagesLoaded == Ret(None, <<>>, Status("No images loaded", 0, 0))

\* C1: whenever image_files is non-empty, 0 <= current_index < len(image_files)
C1_PositionInRange ==
  image_files # <<>> =>
    0 <= current_index /\ current_index < Len(image_files)

\* C1 witness: next_pair was called at the last of three images and stayed
C1_Witness ==
  /\ last.op = "next_pair"
  /\ Len(image_files) = 3
  /\ current_index = 2

\* C2: save while P is current never changes the caption that is returned
\* when another image Q of the list is current (their caption paths differ)
C2_SaveLeavesOtherCaptions ==
  [][last'.op = "save_caption" =>
       \A q \in 1..Len(image_files) :
         q - 1 # current_index =>
           /\ CaptionPath(image_files[q]) #
                CaptionPath(image_files[current_index + 1])
           /\ get_current_pair([Self EXCEPT !.current_index = q - 1], files')
                = get_current_pair([Self EXCEPT !.current_index = q - 1], files)
    ]_vars

\* C3: no handler ends with an exception escaping to the caller
C3_NoExceptionEscapes == result.kind # "raise"

\* C4: jump_to_pair with an input that is no integer (text that is not a
\* number, or an absent value) returns the current pair with "Please enter a
\* valid number" and leaves the session unchanged; stated for the states
\* whose current caption can be read
C4_JumpNotANumber ==
  [][(/\ last'.op = "jump_to_pair"
      /\ \/ last'.arg.t = "none"
         \/ last'.arg.t = "str" /\ IntOf(last'.arg).exc # ""
      /\ get_current_pair(Self, files).kind = "ret")
     => /\ result' = Ret(get_current_pair(Self, files).out[1],
                         get_current_pair(Self, files).out[2],
                         Status("Please enter a valid number", 0, 0))
        /\ UNCHANGED <<image_files, current_index, folder_path>>
    ]_vars

\* the image at the current position, None when no image is loaded
CurrentImage ==
  IF image_files = <<>> THEN None ELSE image_files[current_index + 1]

\* C5: for an integer n, jump_to_pair(n) with 1 <= n <= len(image_files) sets
\* current_index to n-1 and returns image_files[n-1] with "Showing image n of
\* len"; any other n leaves current_index unchanged and returns the current
\* image with "Invalid image number"
C5_JumpInteger ==
  [][(last'.op = "jump_to_pair" /\ last'.arg.t = "int")
     => LET n == last'.arg.n
        IN IF 1 <= n /\ n <= Len(image_files)
           THEN /\ current_index' = n - 1
                /\ result'.kind = "ret"
                /\ result'.out[1] = image_files[n]
                /\ result'.out[3] = Status("Showing image", n, Len(image_files))
           ELSE /\ current_index' = current_index
                /\ result'.kind = "ret"
                /\ result'.out[1] = CurrentImage
                /\ result'.out[3] = Status("Invalid image number", 0, 0)
    ]_vars

\* C6: with images loaded, next_pair adds exactly 1 to current_index below the
\* last index and otherwise leaves it, previous_pair subtracts exactly 1 above
\* 0 and otherwise leaves it, and each returns the pair at the resulting
\* position with "Showing image {current_index+1} of {len}"
C6_NavigationClamps ==
  [][(image_files # <<>> /\ last'.op \in {"next_pair", "previous_pair"})
     => /\ last'.op = "next_pair" =>
             current_index' = IF current_index < Len(image_files) - 1
                              THEN current_index + 1 ELSE current_index
        /\ last'.op = "previous_pair" =>
             current_index' = IF current_index > 0
                              THEN current_index - 1 ELSE current_index
        /\ result'.kind = "ret"
        /\ result'.out[1] = image_files[current_index' + 1]
        /\ result'.out[3] = Status("Showing image", current_index' + 1,
                                   Len(image_files))
    ]_vars

\* C7: right after a successful save(c) the caption file of the current image
\* holds exactly c, and as long as no further save is made every handler that
\* returns that image returns the caption strip(c)
C7_SaveReadRoundTrip ==
  saved # NoSave =>
    /\ last.op = "save_caption" => files[CaptionPath(saved.image)] = saved.text
    /\ (last.op \in ShowingOps /\ result.kind = "ret"
          /\ result.out[1] = saved.image)
         => result.out[2] = strip(saved.text)

\* C8: save_caption leaves image_files, current_index and folder_path as they
\* were; with no image loaded it returns (None, caption, "No images loaded")
\* and writes no file; otherwise it returns the current image and the given
\* caption, with "Error saving caption: ..." whenever the caption was not
\* written
C8_SaveKeepsSession ==
  [][last'.op = "save_caption"
     => /\ UNCHANGED <<image_files, current_index, folder_path>>
        /\ IF image_files = <<>>
           THEN /\ result' = Ret(None, last'.arg,
                                 Status("No images loaded", 0, 0))
                /\ files' = files
           ELSE LET txt_path == CaptionPath(image_files[current_index + 1])
                    written == [files EXCEPT ![txt_path] =
                                  WriteNewlines(last'.arg, system)]
                IN /\ result'.kind = "ret"
                   /\ result'.out[1] = image_files[current_index + 1]
                   /\ result'.out[2] = last'.arg
                   /\ \/ /\ result'.out[3] =
                              Status("Caption saved for image",
                                     current_index + 1, 0)
                         /\ files' = written
                      \/ /\ result'.out[3] =
                              Status("Error saving caption: ", 0, 0)
                         /\ \A p \in TxtPaths \ {txt_path} :
                              files'[p] = files[p]
    ]_vars

\* C8 witness: a save failed while the second image of a loaded list was
\* current
C8_Witness ==
  /\ last.op = "save_caption"
  /\ image_files # <<>>
  /\ current_index > 0
  /\ result.out[3].msg = "Error saving caption: "

\* C9: load_folder with an empty or absent path returns (None, "", "No folder
\* selected") and leaves image_files, current_index and folder_path as they
\* were
C9_LoadEmptyPath ==
  [][(last'.op = "load_folder" /\ last'.arg \in {None, <<>>})
     => /\ result' = Ret(None, <<>>, Status("No folder selected", 0, 0))
        /\ UNCHANGED <<image_files, current_index, folder_path>>
    ]_vars

\* C9 witness: load_folder("") was called with images loaded and the second
\* one current
C9_Witness ==
  /\ last.op = "load_folder"
  /\ last.arg = <<>>
  /\ image_files # <<>>
  /\ current_index > 0

\* a load_folder call whose scan finds no image
EmptyScan(folder) ==
  ~ Falsy(folder) /\ sorted(glob(folder, files, disk)) = <<>>

\* C10: load_folder of a folder without a matching file returns (None, "",
\* "No PNG files found in the selected folder") and leaves image_files empty;
\* while image_files is empty (it stays so until a load finds images)
\* get_current_pair, next_pair and previous_pair return (None, "", "No images
\* loaded"), save_caption writes no file and jump_to_pair returns no image
C10_EmptyFolder ==
  [][/\ (last'.op = "load_folder" /\ EmptyScan(last'.arg))
          => /\ result' = Ret(None, <<>>,
                   Status("No PNG files found in the selected folder", 0, 0))
             /\ image_files' = <<>>
     /\ (image_files = <<>> /\ image_files' # <<>>)
          => /\ last'.op = "load_folder"
             /\ result'.kind = "ret" => result'.out[1] # None
     /\ (image_files = <<>>
           /\ last'.op \in {"get_current_pair", "next_pair", "previous_pair"})
          => result' = NoImagesLoaded
     /\ (image_files = <<>> /\ last'.op = "save_caption") => files' = files
     /\ (image_files = <<>> /\ last'.op = "jump_to_pair")
          => result'.kind = "raise" \/ result'.out[1] = None
    ]_vars

\* C10 witness: a folder without images was loaded over a list whose second
\* or third image was current, and get_current_pair was called afterwards
C10_Witness ==
  /\ last.op = "get_current_pair"
  /\ image_files = <<>>
  /\ folder_path = <<"e">>
  /\ current_index > 0


\* the elements of a sequence
Range(seq) == {seq[i] : i \in 1..Len(seq)}

\* strictly ascending in the order sorted() uses (hence without duplicates)
StrictlyAscending(seq) ==
  \A i \in 1..(Len(seq) - 1) : StrLess(seq[i], seq[i + 1])

\* C11: a load_folder that finds images leaves image_files equal to the
\* "*.png" files directly in the folder, strictly ascending, with
\* current_index 0, and returns image_files[0] with "Showing image 1 of len";
\* next_pair, previous_pair, jump_to_pair, save_caption and get_current_pair
\* leave image_files and folder_path unchanged; image_files is always sorted
C11_ImagesFixedBetweenLoads ==
  [][/\ (last'.op = "load_folder" /\ ~ Falsy(last'.arg)
           /\ ~ EmptyScan(last'.arg))
          => /\ Range(image_files') =
                  {JoinPath(last'.arg, n) :
                     n \in {m \in Listing(last'.arg, files, disk) :
                              MatchesPng(m)}}
             /\ current_index' = 0
             /\ result'.kind = "ret"
             /\ result'.out[1] = image_files'[1]
             /\ result'.out[3] = Status("Showing image", 1, Len(image_files'))
     /\ last'.op \in {"next_pair", "previous_pair", "jump_to_pair",
                      "save_caption", "get_current_pair"}
          => UNCHANGED <<image_files, folder_path>>
     /\ StrictlyAscending(image_files')
    ]_vars


\* the 5-tuple clear_all returns: blank image, caption and folder display,
\* jump field back to 1
AllFieldsCleared ==
  [kind |-> "ret",
   out |-> <<None, <<>>, Status("All fields cleared", 0, 0), <<>>, 1>>]

\* C12: clear_all sets image_files to empty, current_index to 0 and
\* folder_path to None, returns (None, "", "All fields cleared", "", 1) and
\* touches no file; get_current_pair called right after it returns
\* (None, "", "No images loaded")
C12_ClearResets ==
  [][/\ last'.op = "clear_all"
          => /\ image_files' = <<>>
             /\ current_index' = 0
             /\ folder_path' = None
             /\ result' = AllFieldsCleared
             /\ files' = files
     /\ (last.op = "clear_all" /\ last'.op = "get_current_pair")
          => result' = NoImagesLoaded
    ]_vars

\* C12 witness: clear_all was called in a session that had loaded a folder
\* and saved a caption
C12_Witness ==
  /\ last.op = "clear_all"
  /\ saved # NoSave
  /\ image_files = <<>>
  /\ folder_path = None

\* C13: no handler but save_caption changes a caption file; for an image
\* without a caption file get_current_pair returns the empty caption and the
\* file is still missing; next_pair and previous_pair write nothing whatever
\* text the caption field holds
C13_OnlySaveWrites ==
  [][/\ last'.op # "save_caption" => files' = files
     /\ (last'.op = "get_current_pair" /\ image_files # <<>>
           /\ files[CaptionPath(CurrentImage)] = Missing)
          => /\ result'.kind = "ret"
             /\ result'.out[1] = CurrentImage
             /\ result'.out[2] = <<>>
             /\ files'[CaptionPath(CurrentImage)] = Missing
    ]_vars

\* C13 witness: get_current_pair returned the empty caption for an image
\* whose caption file is missing
C13_Witness ==
  /\ last.op = "get_current_pair"
  /\ image_files # <<>>
  /\ files[CaptionPath(CurrentImage)] = Missing
  /\ result.kind = "ret"
  /\ result.out[2] = <<>>

\* C14 as stated: every load_folder with a non-empty path leaves image_files
\* equal to the sorted scan, folder_path equal to the path and current_index
\* equal to 0, whether or not the scan found an image
C14_LoadReplacesAllThree ==
  [][(last'.op = "load_folder" /\ ~ Falsy(last'.arg))
     => /\ image_files' = sorted(glob(last'.arg, files, disk))
        /\ folder_path' = last'.arg
        /\ current_index' = 0
    ]_vars

\* C14 amended: every load_folder with a non-empty path leaves image_files
\* equal to the sorted scan and folder_path equal to the path; current_index
\* is 0 when the scan found an image and is left as it was when it found none
C14_LoadReplacesListAndFolder ==
  [][(last'.op = "load_folder" /\ ~ Falsy(last'.arg))
     => /\ image_files' = sorted(glob(last'.arg, files, disk))
        /\ folder_path' = last'.arg
        /\ current_index' = IF EmptyScan(last'.arg) THEN current_index ELSE 0
    ]_vars

\* C14 witness: a folder without images was loaded while the second or third
\* image of a list was current, and current_index kept that value
C14_Witness ==
  /\ last.op = "load_folder"
  /\ last.arg = <<"e">>
  /\ folder_path = <<"e">>
  /\ image_files = <<>>
  /\ current_index > 0


\* C15: the folder picker returns a non-empty folder path or None; it returns
\* None on cancel (empty output), on an unsupported host, and on Linux when
\* zenity and then kdialog are not found; kdialog is run only after zenity
\* was not found; a None result gives the "No folder selected" answer and
\* leaves image_files, current_index and folder_path as they were
C15_PickerPathOrNone ==
  [][last'.op = "browse"
     => LET env == last'.arg.env
            picked == last'.arg.picked
            ran == last'.arg.ran
            tool == IF system = "linux" /\ env.main.exc = "FileNotFoundError"
                    THEN env.kdialog ELSE env.main
        IN /\ \/ picked = None
              \/ (picked # <<>> /\ picked \in {strip(o) : o \in DialogOutputs})
           /\ (system \in {"darwin", "windows", "linux"}
                 /\ tool.exc = "" /\ strip(tool.stdout) = <<>>)
                => picked = None
           /\ system \notin {"darwin", "windows", "linux"}
                => picked = None /\ ran = <<>>
           /\ (system = "linux" /\ env.main.exc = "FileNotFoundError"
                 /\ env.kdialog.exc = "FileNotFoundError")
                => picked = None
           /\ "kdialog" \in Range(ran)
                => /\ system = "linux"
                   /\ env.main.exc = "FileNotFoundError"
                   /\ ran = <<"zenity", "kdialog">>
           /\ picked = None
                => /\ result' = NoFolderSelected
                   /\ UNCHANGED <<image_files, current_index, folder_path>>
    ]_vars

\* C15 witness: on Linux neither zenity nor kdialog was found, while the
\* second or third image of a loaded list was current
C15_Witness ==
  /\ last.op = "browse"
  /\ system = "linux"
  /\ last.arg.env.main.exc = "FileNotFoundError"
  /\ last.arg.env.kdialog.exc = "FileNotFoundError"
  /\ last.arg.picked = None
  /\ image_files # <<>>
  /\ current_index > 0

\* the image the last handler returned to the image view
ShownImage == IF last.op = "browse" THEN result.out[2] ELSE result.out[1]

\* C16: whenever save_caption changes a caption file after a handler that
\* returned, that handler returned an image and the file is the caption file
\* of that image; after a handler that returned no image save writes nothing
C16_SaveWritesShownImage ==
  [][(last'.op = "save_caption" /\ files' # files /\ result.kind = "ret")
     => /\ ShownImage # None
        /\ \A p \in TxtPaths :
             files'[p] # files[p] => p = CaptionPath(ShownImage)
    ]_vars

====
